---- MODULE Spec2Model ----
(***************************************************************************)
(* A model of the crawl engine (crawler/scraper.py) and of the change      *)
(* detector (scheduler/detector.py) over the persistence operations of     *)
(* utilities/database.py.                                                  *)
(*                                                                         *)
(* A catalog page is identified by its number p in 1..NumPages, the detail *)
(* page of the i-th book of page p by <<p, i>>, and the fetch of catalog   *)
(* page p itself by <<p, 0>>.  None (0) stands for Python's None.          *)
(***************************************************************************)
EXTENDS Integers, Sequences, FiniteSets, TLC

\* ------------------------------------------------------------------ bounds
NumPages == 2
BooksPerPage == 2
max_concurrent_requests == 1
MaxRuns == 2
MaxFaults == 3      \* failed requests, bad bodies and failed writes, in total
MaxChecks == 2      \* _check_book calls
MaxSiteChanges == 1 \* edits of the site
MaxJobs == 2        \* detect_changes calls of one ChangeDetector

\* ------------------------------------------------- constants of the program
stop_after_attempt == 3
wait_multiplier == 1
wait_min == 2
wait_max == 10

None == 0
NoUrl == <<>>       \* None where a detail-page URL is expected
NoHash == <<>>      \* content_hash before compute_content_hash has run
NoErr == <<>>       \* no exception
NoBody == <<>>      \* no response body
NoId == <<>>        \* a Book that has no _id yet
NoDict == [k \in {} |-> 0]   \* None where a dict is expected (old_value, new_value)

VARIABLES
    \* persistent storage (MongoDB collections)
    books,              \* set of book documents
    checkpoints,        \* set of checkpoint documents
    \* in-memory state of one crawler process
    pc,                 \* position of scrape_all_books
    start_url,
    current_page_url,
    next_page_url,
    book_urls,          \* the item URLs of the current catalog page
    stats,              \* BookScraper.stats
    semaphore,          \* asyncio.Semaphore._value
    call,               \* per URL: the state of its fetch_page / scrape_book
    \* history variables (observations, read by no action's guard)
    runs,               \* number of runs started so far
    resumed,            \* the current run was started with resume=True after an earlier run
    faults,             \* number of faults the environment has injected
    fetched,            \* detail pages requested by the current run
    prevFetched,        \* detail pages requested by the run before it
    resumedPage,        \* page named by the per-page checkpoint a resumed run found
    cpIsPage,           \* the stored checkpoint was written by the per-page save
    lastSave,           \* the last save_checkpoint: page, tasks still running, what was saved
    processedPages,     \* pages whose batch has completed in this run
    savedPages,         \* pages whose per-page checkpoint was saved in this run
    endedAt,            \* where the run before the current one was when it ended
    endedRunning,       \* detail-page tasks still unfinished when it ended
    started,            \* the arguments of the current run and the checkpoint it found
    catalogFetched,     \* catalog pages requested by the current run, in order
    lastUpsert,         \* the last upsert_book call: its URL, what it met and returned
    \* the site and the change detector
    site,               \* per page: what its body shows now (fields, next link)
    siteChanges,        \* number of edits made to the site
    changes,            \* ChangeDetector.changes
    dstats,             \* ChangeDetector.stats
    checks,             \* number of _check_book calls made
    lastCheck,          \* history: the last _check_book call and the state before it
    changelog,          \* persistent storage: the changelog collection
    jobs,               \* number of detect_changes calls that have logged their changes
    \* one direct call of compare_books
    cmp

vars == <<books, checkpoints, faults, pc, resumed, start_url, current_page_url,
          next_page_url, book_urls, stats, semaphore, call, runs, fetched,
          prevFetched, resumedPage, cpIsPage, lastSave, processedPages,
          savedPages, endedAt, endedRunning, started, catalogFetched, lastUpsert, site, siteChanges, changes, dstats, checks,
          lastCheck, changelog, jobs, cmp>>

\* the state of the change detector, of the site and of a compare_books call
detectorVars == <<siteChanges, changes, dstats, checks, lastCheck, changelog, jobs>>
crawlerVars == <<checkpoints, pc, resumed, start_url, current_page_url, next_page_url,
                 book_urls, stats, semaphore, call, runs, fetched, prevFetched,
                 resumedPage, cpIsPage, lastSave, processedPages, savedPages, endedAt,
                 endedRunning, started, catalogFetched>>

\* ------------------------------------------------------------------ helpers
Max(a, b) == IF a >= b THEN a ELSE b
Min(a, b) == IF a <= b THEN a ELSE b

RECURSIVE Pow2(_)
Pow2(n) == IF n <= 0 THEN 1 ELSE 2 * Pow2(n - 1)

Range(s) == {s[i] : i \in 1..Len(s)}

\* --------------------------------------------------------------- the site
Pages == 1..NumPages

\* the site: the first catalog page lists BooksPerPage books, every later
\* page a single one
BooksOn(p) == IF p = 1 THEN BooksPerPage ELSE 1

Urls == {u \in Pages \X (0..BooksPerPage) : u[2] <= BooksOn(u[1])}
IsBook(u) == u[2] > 0
BookUrls == {u \in Urls : IsBook(u)}
PageOf(u) == u[1]

\* parser.parse_book_list_page on the body of catalog page p
parse_book_list_page(p) == [i \in 1..BooksOn(p) |-> <<p, i>>]

\* the body of a catalog page: its "next" link, None on a page without one
CatalogBody(next) == [next |-> next]

\* the next links of the catalog as published: page p leads to page p + 1
LinearLinks == [p \in Pages |-> IF p < NumPages THEN p + 1 ELSE None]

\* parser.get_next_page_url on the body of catalog page p
get_next_page_url(p) == site[<<p, 0>>].next

\* the values a field of a detail page takes
FieldValues ==
    [price_incl_tax |-> {50, 45}, price_excl_tax |-> {50, 45},
     availability |-> {"In stock", "Low stock"}, num_available |-> {10, 9},
     num_reviews |-> {5, 6}, rating |-> {"Three", "Four"},
     image_url |-> {"img1", "img2"}, description |-> {"d1", "d2"}]
Fields == DOMAIN FieldValues

\* what the detail page u shows before any edit
InitialBody(u) ==
    [name |-> u, price_incl_tax |-> 50, price_excl_tax |-> 50,
     availability |-> "In stock", num_available |-> 10, num_reviews |-> 5,
     rating |-> "Three", image_url |-> "img1", description |-> "d1"]

\* every body the detail page u can show
Bodies(u) ==
    {[name |-> u, price_incl_tax |-> pi, price_excl_tax |-> pe, availability |-> av,
      num_available |-> na, num_reviews |-> nr, rating |-> ra, image_url |-> im,
      description |-> de] :
        pi \in FieldValues.price_incl_tax, pe \in FieldValues.price_excl_tax,
        av \in FieldValues.availability, na \in FieldValues.num_available,
        nr \in FieldValues.num_reviews, ra \in FieldValues.rating,
        im \in FieldValues.image_url, de \in FieldValues.description}

\* datetime.utcnow(), as a logical clock: the number of crawler runs and of
\* _check_book calls started so far
Now == runs + checks

\* Book(...) as parse_book_detail_page builds it at time now (no hash and no
\* _id yet; crawl_timestamp is the default_factory of the model)
NewBook(body, source_url, now) ==
    [name |-> body.name, price_incl_tax |-> body.price_incl_tax,
     price_excl_tax |-> body.price_excl_tax, availability |-> body.availability,
     num_available |-> body.num_available, num_reviews |-> body.num_reviews,
     rating |-> body.rating, image_url |-> body.image_url,
     description |-> body.description,
     source_url |-> source_url, crawl_timestamp |-> now,
     content_hash |-> NoHash, id |-> NoId]

\* parser.parse_book_detail_page on a good body
parse_book_detail_page(body, source_url) == NewBook(body, source_url, Now)

\* -------------------------------------------------------------- persistence
\* (mutant) the rating is left out of the hashed content
compute_content_hash_NoRating(book) ==
    <<book.availability, book.name, book.num_available, book.num_reviews,
      book.price_excl_tax, book.price_incl_tax>>

\* Database.compute_content_hash: SHA-256 over the key-sorted JSON of the seven
\* tracked fields, taken as injective on that serialisation
compute_content_hash(book) ==
    <<book.availability, book.name, book.num_available, book.num_reviews,
      book.price_excl_tax, book.price_incl_tax, book.rating>>

\* books.find_one({"source_url": url})
Matching(coll, url) == {d \in coll : d.source_url = url}

\* Database.get_book_by_url, when a document matches
get_book_by_url(coll, url) == CHOOSE d \in Matching(coll, url) : TRUE

\* the _id MongoDB gives a document inserted for url: fresh in the collection
NewId(coll, url) == <<url, Cardinality(Matching(coll, url)) + 1>>

\* (mutant) the book is inserted whether or not its URL is stored
upsert_book_AlwaysInsert(coll, book) ==
    coll \cup {[book EXCEPT !.id = NewId(coll, book.source_url)]}

\* Database.upsert_book, line 158: is_new = result.upserted_id is not None
is_new(coll, book) == Matching(coll, book.source_url) = {}

\* Database.upsert_book: update_one({"source_url": ..}, {"$set": ..}, upsert=True);
\* the document keeps its _id on update and gets a fresh one on insert
upsert_book(coll, book) ==
    IF Matching(coll, book.source_url) = {}
    THEN coll \cup {[book EXCEPT !.id = NewId(coll, book.source_url)]}
    ELSE LET d == CHOOSE x \in Matching(coll, book.source_url) : TRUE
         IN  (coll \ {d}) \cup {[book EXCEPT !.id = d.id]}

\* (mutant) the dump leaves out a field whose value is None
model_dump_ExcludeNone(cp) ==
    [f \in DOMAIN cp \ (IF cp.last_book_url = NoUrl THEN {"last_book_url"} ELSE {})
        |-> cp[f]]

\* checkpoint.model_dump(by_alias=True, exclude={"id"}), line 260: every field
\* of the model but id, the ones that are None included
model_dump(cp) == [f \in DOMAIN cp |-> cp[f]]

\* MongoDB's $set: the named fields are written, the others are kept
SetFields(d, fields) ==
    [f \in DOMAIN d \cup DOMAIN fields |-> IF f \in DOMAIN fields THEN fields[f] ELSE d[f]]

\* Database.save_checkpoint: update_one({"checkpoint_id": ..}, {"$set": ..}, upsert=True)
save_checkpoint(coll, cp) ==
    LET same == {d \in coll : d.checkpoint_id = cp.checkpoint_id}
        checkpoint_dict == model_dump(cp)
    IN  IF same = {} THEN coll \cup {checkpoint_dict}
        ELSE LET d == CHOOSE x \in same : TRUE
             IN  (coll \ {d}) \cup {SetFields(d, checkpoint_dict)}

\* Database.get_checkpoint: whether find_one finds a document, and the one found
HasCheckpoint(coll, cid) == \E d \in coll : d.checkpoint_id = cid
get_checkpoint(coll, cid) == CHOOSE d \in coll : d.checkpoint_id = cid

\* ------------------------------------------------------ the retry policy
\* outcomes of one client.get + raise_for_status:
\*   "ok"         a 2xx response
\*   "transient"  connection error, timeout or 5xx (httpx.HTTPError)
\*   "status4xx"  4xx status: raise_for_status raises httpx.HTTPStatusError,
\*                a subclass of httpx.HTTPError
\*   "other"      an exception outside httpx.HTTPError (e.g. httpx.InvalidURL)
Outcomes == {"ok", "transient", "status4xx", "other"}

\* (mutant) retry on every exception
retry_if_exception_type_Any(e) == e # "ok"

\* retry=retry_if_exception_type((httpx.HTTPError, httpx.TimeoutException))
retry_if_exception_type(e) == e \in {"transient", "status4xx"}

\* (mutant) one attempt more than configured
stop_OffByOne(attempt_number) == attempt_number > stop_after_attempt

\* stop=stop_after_attempt(3)
stop(attempt_number) == attempt_number >= stop_after_attempt

\* wait=wait_exponential(multiplier=1, min=2, max=10), asked after the failed
\* attempt attempt_number: max(min, min(multiplier * 2 ** (attempt_number - 1), max))
wait_exponential(attempt_number) ==
    Max(wait_min, Min(wait_multiplier * Pow2(attempt_number - 1), wait_max))

\* --------------------------------------------------------------- semaphore
\* (mutant) acquire() never blocks
SemaphoreFree_NeverBlocks == TRUE

\* asyncio.Semaphore: acquire() passes only while _value > 0
SemaphoreFree == semaphore > 0

\* one fetch_page call and the scrape_book around it:
\*   attempt  tenacity's attempt_number      log    outcome of each request made
\*   waits    the backoff sleeps taken       err    <<exception, attempt>> raised
\*   body     <<url, attempt>> returned      result what scrape_book returned
IdleCall == [pc |-> "idle", attempt |-> 0, log |-> <<>>, waits |-> <<>>,
             err |-> NoErr, body |-> NoBody, result |-> "none"]
NewCall == [IdleCall EXCEPT !.pc = "acquire", !.attempt = 1]

InFlight == {u \in Urls : call[u].pc = "request"}
Unfinished == {u \in BookUrls : call[u].pc \notin {"idle", "done"}}

\* ChangeDetector.__init__
FreshDetectorStats ==
    [new_books |-> 0, price_changes |-> 0, availability_changes |-> 0,
     content_changes |-> 0, unchanged |-> 0]

NoCheck == [url |-> NoUrl, extracted |-> FALSE, wasStored |-> FALSE, db |-> "none",
            changesBefore |-> <<>>, statsBefore |-> FreshDetectorStats,
            old_book |-> NoDict, new_book |-> NoDict,
            outcome |-> "none", requests |-> 0, upserts |-> 0]
NoCompare == [old |-> NoDict, new |-> NoDict, events |-> <<>>, done |-> FALSE,
              again |-> <<>>, doneAgain |-> FALSE]

NoSave == [page |-> None, running |-> 0, kind |-> "none", cp |-> NoDict]
NoStart == [resume |-> FALSE, given |-> None, checkpoint |-> NoDict]
NoUpsert == [url |-> NoUrl, wasStored |-> FALSE, is_new |-> FALSE]
FreshStats == [total_books |-> 0, successful |-> 0, failed |-> 0]

\* ------------------------------------------------------------------- Init
\* an empty store and no process running
InitProgram ==
    /\ books = {}
    /\ checkpoints = {}
    /\ pc = "idle"
    /\ resumed = FALSE
    /\ start_url = None
    /\ current_page_url = None
    /\ next_page_url = None
    /\ book_urls = <<>>
    /\ stats = FreshStats
    /\ semaphore = max_concurrent_requests
    /\ call = [u \in Urls |-> IdleCall]
    /\ runs = 0
    /\ fetched = {}
    /\ prevFetched = {}
    /\ resumedPage = None
    /\ cpIsPage = FALSE
    /\ lastSave = NoSave
    /\ processedPages = <<>>
    /\ savedPages = <<>>
    /\ endedAt = "none"
    /\ endedRunning = 0
    /\ started = NoStart
    /\ catalogFetched = <<>>
    /\ lastUpsert = NoUpsert
    /\ siteChanges = 0
    /\ changes = <<>>
    /\ dstats = FreshDetectorStats
    /\ checks = 0
    /\ lastCheck = NoCheck
    /\ changelog = <<>>
    /\ jobs = 0

\* the site with the next links given
SiteWith(links) ==
    [u \in Urls |-> IF IsBook(u) THEN InitialBody(u) ELSE CatalogBody(links[PageOf(u)])]

\* the site as first published
InitState == InitProgram /\ site = SiteWith(LinearLinks)

InitBase == InitState /\ faults = 0

Init == InitBase /\ cmp = NoCompare

\* --------------------------------------------------- scrape_all_books: start
\* (mutant) the counter of a resumed run starts at 0
SeedTotal_Zero(found, cp) == 0

\* lines 167-173: stats["total_books"] is 0 (line 47) unless a checkpoint is
\* resumed
SeedTotal(found, cp) == IF found THEN cp.total_books_crawled ELSE 0

\* lines 163-181: a new process builds a BookScraper and calls
\* scrape_all_books(start_url=given, resume=r); the first catalog fetch is
\* issued
StartAt(r, given) ==
    /\ pc = "idle"
    /\ UNCHANGED <<endedAt, endedRunning, lastUpsert, site, detectorVars, cmp>>
    /\ runs < MaxRuns
    /\ LET found == r /\ HasCheckpoint(checkpoints, "main_crawl")
           cp    == get_checkpoint(checkpoints, "main_crawl")
           su    == IF found THEN cp.last_page_url ELSE given
           first == IF su = None THEN 1 ELSE su
       IN  /\ start_url' = first
           /\ current_page_url' = first
           /\ stats' = [FreshStats EXCEPT !.total_books = SeedTotal(found, cp)]
           /\ call' = [u \in Urls |-> IF u = <<first, 0>> THEN NewCall ELSE IdleCall]
           /\ resumedPage' = IF found /\ cpIsPage THEN cp.last_page_url ELSE None
           /\ started' = [resume |-> r, given |-> given,
                          checkpoint |-> IF HasCheckpoint(checkpoints, "main_crawl")
                                         THEN cp ELSE NoDict]
    /\ catalogFetched' = <<>>
    /\ resumed' = (r /\ runs > 0)
    /\ pc' = "catalog"
    /\ next_page_url' = None
    /\ book_urls' = <<>>
    /\ semaphore' = max_concurrent_requests
    /\ runs' = runs + 1
    /\ processedPages' = <<>>
    /\ savedPages' = <<>>
    /\ UNCHANGED <<books, checkpoints, faults, fetched, prevFetched, cpIsPage, lastSave>>

\* main.py line 31: scrape_all_books(resume=resume), no start_url given
Start(r) == StartAt(r, None)

\* ------------------------------------------------------------- fetch_page
\* "async with self.semaphore": one attempt enters and issues client.get
Acquire(u) ==
    /\ call[u].pc = "acquire"
    /\ UNCHANGED <<endedAt, endedRunning, started, lastUpsert, site, detectorVars, cmp>>
    /\ catalogFetched' = IF ~IsBook(u) /\ call[u].attempt = 1
                         THEN Append(catalogFetched, PageOf(u))
                         ELSE catalogFetched
    /\ SemaphoreFree
    /\ semaphore' = semaphore - 1
    /\ call' = [call EXCEPT ![u].pc = "request"]
    /\ fetched' = IF IsBook(u) THEN fetched \cup {u} ELSE fetched
    /\ UNCHANGED <<books, checkpoints, pc, resumed, start_url, current_page_url,
                   next_page_url, book_urls, stats, runs, faults, prevFetched, resumedPage,
                   cpIsPage, lastSave, processedPages, savedPages>>

\* what tenacity does with the outcome of attempt attempt_number
RetryDecision(attempt_number, outcome) ==
    IF outcome = "ok" THEN "return"
    ELSE IF ~retry_if_exception_type(outcome) THEN "raise"
    ELSE IF stop(attempt_number) THEN "raise"
    ELSE "retry"

\* scrape_book after fetch_page returned a body (lines 102-122): parsed tells
\* whether parse_book_detail_page found the required fields (for a catalog
\* page: whether parse_book_list_page found any item link in the body)
BookReturned(u, parsed) ==
    IF parsed
    THEN /\ call' = [call EXCEPT ![u].pc = "upsert", ![u].log = Append(@, "ok"),
                                 ![u].body = <<u, call[u].attempt>>]
         /\ UNCHANGED stats
    ELSE /\ call' = [call EXCEPT ![u].pc = "done", ![u].log = Append(@, "ok"),
                                 ![u].body = <<u, call[u].attempt>>,
                                 ![u].result = "none"]
         /\ stats' = [stats EXCEPT !.failed = @ + 1]

\* (mutant) the exception is swallowed without being counted
BookRaised_NotCounted(u, e) ==
    /\ call' = [call EXCEPT ![u].pc = "done", ![u].log = Append(@, e),
                            ![u].err = <<e, call[u].attempt>>,
                            ![u].result = "none"]
    /\ UNCHANGED stats

\* scrape_book when fetch_page raised (lines 124-127)
BookRaised(u, e) ==
    /\ call' = [call EXCEPT ![u].pc = "done", ![u].log = Append(@, e),
                            ![u].err = <<e, call[u].attempt>>,
                            ![u].result = "none"]
    /\ stats' = [stats EXCEPT !.failed = @ + 1]

\* scrape_catalog_page returned (urls, next) to the loop of scrape_all_books
\* (lines 187-197): no URL ends the loop, otherwise the batch is dispatched
CatalogResult(u, urls, next, outcome) ==
    LET ended == [call[u] EXCEPT
                     !.pc = "done",
                     !.log = Append(@, outcome),
                     !.err = IF outcome = "ok" THEN NoErr ELSE <<outcome, call[u].attempt>>,
                     !.body = IF outcome = "ok" THEN <<u, call[u].attempt>> ELSE NoBody]
    IN  /\ book_urls' = urls
        /\ next_page_url' = next
        /\ IF urls = <<>>
           THEN /\ pc' = "final"
                /\ call' = [call EXCEPT ![u] = ended]
           ELSE /\ pc' = "gather"
                /\ call' = [v \in Urls |->
                              IF v \in Range(urls) THEN NewCall
                              ELSE IF v = u THEN ended
                              ELSE call[v]]
        /\ UNCHANGED stats

\* (mutant) the slot is kept through the backoff when the attempt is retried
SemaphoreAfter_HeldWhileRetrying(value, outcome) ==
    IF retry_if_exception_type(outcome) THEN value ELSE value + 1

\* (mutant) the slot is given back only when the request returned a response
SemaphoreAfter_LeakOnError(value, outcome) == IF outcome = "ok" THEN value + 1 ELSE value

\* line 80, leaving "async with self.semaphore": release() on return and on raise
SemaphoreAfter(value, outcome) == value + 1

\* a failed request or a body the parser rejects is a fault of the environment
IsFault(outcome, parsed) == outcome # "ok" \/ ~parsed

\* the attempt's client.get ends: the semaphore is released on the way out of
\* "async with", then tenacity returns, re-raises or starts the backoff sleep
AttemptEnd(u, outcome, parsed) ==
    /\ call[u].pc = "request"
    /\ outcome # "ok" => parsed                       \* only a body is parsed
    /\ UNCHANGED <<endedAt, endedRunning, started, catalogFetched, lastUpsert, site, detectorVars, cmp>>
    /\ IsFault(outcome, parsed) => faults < MaxFaults
    /\ faults' = IF IsFault(outcome, parsed) THEN faults + 1 ELSE faults
    /\ semaphore' = SemaphoreAfter(semaphore, outcome)
    /\ LET d == RetryDecision(call[u].attempt, outcome)
       IN  CASE d = "retry" ->
                  /\ call' = [call EXCEPT ![u].pc = "backoff",
                                          ![u].log = Append(@, outcome),
                                          ![u].waits = Append(@, wait_exponential(call[u].attempt))]
                  /\ UNCHANGED <<stats, pc, book_urls, next_page_url>>
             [] d = "return" /\ IsBook(u) ->
                  /\ BookReturned(u, parsed)
                  /\ UNCHANGED <<pc, book_urls, next_page_url>>
             [] d = "raise" /\ IsBook(u) ->
                  /\ BookRaised(u, outcome)
                  /\ UNCHANGED <<pc, book_urls, next_page_url>>
             [] d = "return" /\ ~IsBook(u) ->
                  CatalogResult(u, IF parsed THEN parse_book_list_page(PageOf(u))
                                   ELSE <<>>,
                                get_next_page_url(PageOf(u)), outcome)
             [] d = "raise" /\ ~IsBook(u) ->
                  CatalogResult(u, <<>>, None, outcome)
    /\ UNCHANGED <<books, checkpoints, resumed, start_url, current_page_url,
                   runs, fetched, prevFetched, resumedPage, cpIsPage, lastSave,
                   processedPages, savedPages>>

\* the backoff sleep ends and the next attempt queues for the semaphore
BackoffEnd(u) ==
    /\ call[u].pc = "backoff"
    /\ UNCHANGED <<endedAt, endedRunning, started, catalogFetched, lastUpsert, site, detectorVars, cmp>>
    /\ call' = [call EXCEPT ![u].pc = "acquire", ![u].attempt = @ + 1]
    /\ UNCHANGED <<books, checkpoints, pc, resumed, start_url, current_page_url,
                   next_page_url, book_urls, stats, semaphore, runs, faults, fetched,
                   prevFetched, resumedPage, cpIsPage, lastSave, processedPages,
                   savedPages>>

\* ------------------------------------------------------------ scrape_book
\* (mutant) the increment is lost
CountSuccessful_Lost(st) == st

\* line 116: self.stats["successful"] += 1, with no await between the read and
\* the write
CountSuccessful(st) == [st EXCEPT !.successful = @ + 1]

\* lines 106-117: hash, upsert, count; dbOk = FALSE is upsert_book raising
\* (lines 124-127)
Upsert(u, dbOk) ==
    /\ call[u].pc = "upsert"
    /\ UNCHANGED <<endedAt, endedRunning, started, catalogFetched, site, detectorVars, cmp>>
    /\ ~dbOk => faults < MaxFaults
    /\ faults' = IF dbOk THEN faults ELSE faults + 1
    /\ IF dbOk
       THEN LET parsedBook == parse_book_detail_page(site[u], u)
                book == [parsedBook EXCEPT !.content_hash = compute_content_hash(parsedBook)]
            IN  /\ books' = upsert_book(books, book)
                /\ lastUpsert' = [url |-> u, wasStored |-> Matching(books, u) # {},
                                  is_new |-> is_new(books, book)]
                /\ stats' = CountSuccessful(stats)
                /\ call' = [call EXCEPT ![u].pc = "done", ![u].result = "ok"]
       ELSE /\ stats' = [stats EXCEPT !.failed = @ + 1]
            /\ call' = [call EXCEPT ![u].pc = "done", ![u].result = "none"]
            /\ UNCHANGED <<books, lastUpsert>>
    /\ UNCHANGED <<checkpoints, pc, resumed, start_url, current_page_url, next_page_url,
                   book_urls, semaphore, runs, fetched, prevFetched, resumedPage,
                   cpIsPage, lastSave, processedPages, savedPages>>

\* ------------------------------------------- scrape_all_books: page batch
\* (mutant) gather returns as soon as one task has finished
GatherComplete_FirstDone == \E u \in Range(book_urls) : call[u].pc = "done"

\* asyncio.gather returns once every task of the batch has finished
GatherComplete == \A u \in Range(book_urls) : call[u].pc = "done"

\* (mutant) every task of the batch is counted
CountedResults_Attempted == Len(book_urls)

\* lines 200-202: the results that are truthy and no exception, one per book
\* that scrape_book persisted
CountedResults == Cardinality({u \in Range(book_urls) : call[u].result = "ok"})

\* lines 197-211: gather returns, the results are counted (the finished tasks
\* and their results are dropped) and the page's checkpoint is built; the
\* coroutine then awaits save_checkpoint
GatherDone ==
    /\ pc = "gather"
    /\ UNCHANGED <<endedAt, endedRunning, started, catalogFetched, lastUpsert, site, detectorVars, cmp>>
    /\ GatherComplete
    /\ stats' = [stats EXCEPT !.total_books = @ + CountedResults]
    /\ call' = [u \in Urls |-> IF call[u].pc = "done" THEN IdleCall ELSE call[u]]
    /\ pc' = "save"
    /\ processedPages' = Append(processedPages, current_page_url)
    /\ UNCHANGED <<books, checkpoints, resumed, start_url, current_page_url,
                   next_page_url, book_urls, semaphore, runs, faults, fetched,
                   prevFetched, resumedPage, cpIsPage, lastSave, savedPages>>

\* the checkpoint written after a page (lines 205-211)
PageCheckpoint ==
    [checkpoint_id |-> "main_crawl",
     last_page_url |-> current_page_url,
     last_book_url |-> IF book_urls # <<>> THEN book_urls[Len(book_urls)] ELSE NoUrl,
     total_books_crawled |-> stats.total_books,
     status |-> IF next_page_url # None THEN "partial" ELSE "success"]

\* (mutant) the walk stays on the page it has just processed
NextPageToVisit_SamePage == IF next_page_url # None THEN current_page_url ELSE None

\* line 217: current_page_url = next_page_url
NextPageToVisit == next_page_url

\* lines 212-221 and the loop test of line 183: the save returns, the walk
\* moves to the next page, sleeps, and fetches it or leaves the loop
SaveCheckpoint ==
    /\ pc = "save"
    /\ UNCHANGED <<endedAt, endedRunning, started, catalogFetched, lastUpsert, site, detectorVars, cmp>>
    /\ checkpoints' = save_checkpoint(checkpoints, PageCheckpoint)
    /\ cpIsPage' = TRUE
    /\ lastSave' = [page |-> current_page_url, running |-> Cardinality(Unfinished),
                    kind |-> "page", cp |-> PageCheckpoint]
    /\ savedPages' = Append(savedPages, current_page_url)
    /\ current_page_url' = NextPageToVisit
    /\ IF NextPageToVisit # None
       THEN /\ pc' = "catalog"
            /\ call' = [call EXCEPT ![<<NextPageToVisit, 0>>] = NewCall]
       ELSE /\ pc' = "final"
            /\ UNCHANGED call
    /\ UNCHANGED <<books, resumed, start_url, next_page_url, book_urls, stats,
                   semaphore, runs, faults, fetched, prevFetched, resumedPage, processedPages>>

\* (mutant) the final checkpoint names the page the run started at
FinalCheckpoint_StartUrl ==
    [checkpoint_id |-> "main_crawl",
     last_page_url |-> start_url,
     last_book_url |-> NoUrl,
     total_books_crawled |-> stats.total_books,
     status |-> "success"]

\* the checkpoint written when the loop has ended (lines 224-229)
FinalCheckpoint ==
    [checkpoint_id |-> "main_crawl",
     last_page_url |-> IF current_page_url # None THEN current_page_url ELSE start_url,
     last_book_url |-> NoUrl,
     total_books_crawled |-> stats.total_books,
     status |-> "success"]

\* lines 223-230
SaveFinal ==
    /\ pc = "final"
    /\ UNCHANGED <<endedAt, endedRunning, started, catalogFetched, lastUpsert, site, detectorVars, cmp>>
    /\ checkpoints' = save_checkpoint(checkpoints, FinalCheckpoint)
    /\ cpIsPage' = FALSE
    /\ lastSave' = [page |-> FinalCheckpoint.last_page_url,
                    running |-> Cardinality(Unfinished), kind |-> "final",
                    cp |-> FinalCheckpoint]
    /\ pc' = "done"
    /\ UNCHANGED <<books, resumed, start_url, current_page_url, next_page_url,
                   book_urls, stats, semaphore, call, runs, faults, fetched, prevFetched,
                   resumedPage, processedPages, savedPages>>

\* ------------------------------------------------------------ the process
\* the process dies (crash, kill) in the middle of a run, is interrupted
\* (SIGINT: asyncio.run cancels the pending tasks, main.py lines 40-50 log and
\* disconnect, nothing is saved), or exits after the run: everything in memory
\* is lost, storage stays
ProcessEnds ==
    /\ pc # "idle"
    /\ runs < MaxRuns
    /\ pc' = "idle"
    /\ resumed' = FALSE
    /\ start_url' = None
    /\ current_page_url' = None
    /\ next_page_url' = None
    /\ book_urls' = <<>>
    /\ stats' = FreshStats
    /\ semaphore' = max_concurrent_requests
    /\ call' = [u \in Urls |-> IdleCall]
    /\ prevFetched' = fetched
    /\ fetched' = {}
    /\ resumedPage' = None
    /\ lastSave' = [NoSave EXCEPT !.cp = lastSave.cp]
    /\ processedPages' = <<>>
    /\ savedPages' = <<>>
    /\ endedAt' = pc
    /\ endedRunning' = Cardinality(Unfinished)
    /\ started' = NoStart
    /\ catalogFetched' = <<>>
    /\ UNCHANGED <<lastUpsert, site, detectorVars, cmp>>
    /\ UNCHANGED <<books, checkpoints, runs, faults, cpIsPage>>

Next ==
    \/ \E r \in BOOLEAN : Start(r)
    \/ \E u \in Urls : Acquire(u)
    \/ \E u \in Urls, o \in Outcomes, parsed \in BOOLEAN : AttemptEnd(u, o, parsed)
    \/ \E u \in Urls : BackoffEnd(u)
    \/ \E u \in BookUrls, dbOk \in BOOLEAN : Upsert(u, dbOk)
    \/ GatherDone
    \/ SaveCheckpoint
    \/ SaveFinal
    \/ ProcessEnds

Spec == Init /\ [][Next]_vars

\* one run of the crawler from an empty store, never interrupted
StartOnce(r) == runs = 0 /\ Start(r)

NextRun ==
    \/ \E r \in BOOLEAN : StartOnce(r)
    \/ \E u \in Urls : Acquire(u)
    \/ \E u \in Urls, o \in Outcomes, parsed \in BOOLEAN : AttemptEnd(u, o, parsed)
    \/ \E u \in Urls : BackoffEnd(u)
    \/ \E u \in BookUrls, dbOk \in BOOLEAN : Upsert(u, dbOk)
    \/ GatherDone
    \/ SaveCheckpoint
    \/ SaveFinal

SpecRun == Init /\ [][NextRun]_vars

\* the scheduling of one run: every request issued completes or times out
\* (client.get has timeout=settings.crawler_timeout), asyncio.Semaphore wakes
\* a waiter whenever a slot is released, every sleep ends and the event loop
\* runs the coroutines that are ready; so while any step of the run is
\* possible, one is eventually taken
FairRun == WF_vars(NextRun)

\* the environment injects at most two faults: a retry and a raise
InitFair == InitState /\ faults = MaxFaults - 2 /\ cmp = NoCompare

SpecRunFair == InitFair /\ [][NextRun]_vars /\ FairRun

\* ------------------------------------ runs started with or without start_url
\* the process ends while a catalog page is being fetched or after the walk
EndsBetweenPages == pc \in {"catalog", "done"} /\ ProcessEnds

\* scrape_all_books(start_url=given, resume=r) called run after run on one store
NextStart ==
    \/ \E r \in BOOLEAN, given \in {None} \cup Pages : StartAt(r, given)
    \/ \E u \in Urls : Acquire(u)
    \/ \E u \in Urls, o \in Outcomes, parsed \in BOOLEAN : AttemptEnd(u, o, parsed)
    \/ \E u \in Urls : BackoffEnd(u)
    \/ \E u \in BookUrls, dbOk \in BOOLEAN : Upsert(u, dbOk)
    \/ GatherDone
    \/ SaveCheckpoint
    \/ SaveFinal
    \/ EndsBetweenPages

\* the environment injects at most one fault
InitStart == InitState /\ faults = MaxFaults - 1 /\ cmp = NoCompare

SpecStart == InitStart /\ [][NextStart]_vars

\* ------------------------------------------- a walk over any finite catalog
\* a run is followed until it has requested one catalog page more than the
\* catalog has
WalkFollowed == Len(catalogFetched) <= NumPages

NextWalk ==
    \/ WalkFollowed /\ \E r \in BOOLEAN : StartOnce(r)
    \/ WalkFollowed /\ \E u \in Urls : Acquire(u)
    \/ WalkFollowed /\ \E u \in Urls, o \in Outcomes, parsed \in BOOLEAN :
                           AttemptEnd(u, o, parsed)
    \/ WalkFollowed /\ \E u \in Urls : BackoffEnd(u)
    \/ WalkFollowed /\ \E u \in BookUrls, dbOk \in BOOLEAN : Upsert(u, dbOk)
    \/ WalkFollowed /\ GatherDone
    \/ WalkFollowed /\ SaveCheckpoint
    \/ WalkFollowed /\ SaveFinal

\* the catalog pages link to one another in any way; the environment injects
\* at most one fault
InitWalk ==
    /\ InitProgram
    /\ site \in {SiteWith(links) : links \in [Pages -> Pages \cup {None}]}
    /\ faults = MaxFaults - 1
    /\ cmp = NoCompare

SpecWalk == InitWalk /\ [][NextWalk]_vars

\* ======================================================= the change detector
\* a ChangeLog entry
ChangeLog(book_id, book_name, change_type, old_value, new_value, description) ==
    [book_id |-> book_id, book_name |-> book_name, change_type |-> change_type,
     old_value |-> old_value, new_value |-> new_value, description |-> description]

\* (mutant) the price event carries the two prices the wrong way round
PriceChanges_PayloadSwapped(old_book, new_book) ==
    IF old_book.price_incl_tax # new_book.price_incl_tax
    THEN <<ChangeLog(old_book.id, old_book.name, "price_change",
                     [price_incl_tax |-> new_book.price_incl_tax],
                     [price_incl_tax |-> old_book.price_incl_tax],
                     <<"Price changed", old_book.price_incl_tax, new_book.price_incl_tax>>)>>
    ELSE <<>>

\* compare_books, lines 236-247
PriceChanges(old_book, new_book) ==
    IF old_book.price_incl_tax # new_book.price_incl_tax
    THEN <<ChangeLog(old_book.id, old_book.name, "price_change",
                     [price_incl_tax |-> old_book.price_incl_tax],
                     [price_incl_tax |-> new_book.price_incl_tax],
                     <<"Price changed", old_book.price_incl_tax, new_book.price_incl_tax>>)>>
    ELSE <<>>

\* compare_books, lines 249-266
AvailabilityChanges(old_book, new_book) ==
    IF old_book.num_available # new_book.num_available
    THEN <<ChangeLog(old_book.id, old_book.name, "availability_change",
                     [num_available |-> old_book.num_available,
                      availability |-> old_book.availability],
                     [num_available |-> new_book.num_available,
                      availability |-> new_book.availability],
                     <<"Availability changed", old_book.num_available,
                       new_book.num_available>>)>>
    ELSE <<>>

\* compare_books, lines 268-279
ReviewChanges(old_book, new_book) ==
    IF old_book.num_reviews # new_book.num_reviews
    THEN <<ChangeLog(old_book.id, old_book.name, "content_change",
                     [num_reviews |-> old_book.num_reviews],
                     [num_reviews |-> new_book.num_reviews],
                     <<"Reviews changed", old_book.num_reviews, new_book.num_reviews>>)>>
    ELSE <<>>

\* (mutant) availability is compared before price
FieldChanges_AvailabilityFirst(old_book, new_book) ==
    AvailabilityChanges(old_book, new_book) \o PriceChanges(old_book, new_book)
        \o ReviewChanges(old_book, new_book)

\* the three field comparisons of compare_books in source order (lines 236-279)
FieldChanges(old_book, new_book) ==
    PriceChanges(old_book, new_book) \o AvailabilityChanges(old_book, new_book)
        \o ReviewChanges(old_book, new_book)

\* (mutant) the generic event is added whenever the hashes differ
GenericChanges_NoGuard(found, old_book, new_book) ==
    IF old_book.content_hash # new_book.content_hash
    THEN <<ChangeLog(old_book.id, old_book.name, "content_change", NoDict, NoDict,
                     <<"Content changed">>)>>
    ELSE <<>>

\* compare_books, lines 281-291: found is the list built so far
GenericChanges(found, old_book, new_book) ==
    IF found = <<>> /\ old_book.content_hash # new_book.content_hash
    THEN <<ChangeLog(old_book.id, old_book.name, "content_change", NoDict, NoDict,
                     <<"Content changed">>)>>
    ELSE <<>>

\* ChangeDetector.compare_books (old_book.id is set on every stored document)
compare_books(old_book, new_book) ==
    LET found == FieldChanges(old_book, new_book)
    IN  found \o GenericChanges(found, old_book, new_book)

\* (mutant) the new book is logged as a content change
NewBookChange_WrongKind(book_id, new_book) ==
    ChangeLog(book_id, new_book.name, "content_change", NoDict,
              [name |-> new_book.name, price |-> new_book.price_incl_tax],
              <<"New book added", new_book.name>>)

\* _check_book, lines 172-182 (category is not modelled)
NewBookChange(book_id, new_book) ==
    ChangeLog(book_id, new_book.name, "new_book", NoDict,
              [name |-> new_book.name, price |-> new_book.price_incl_tax],
              <<"New book added", new_book.name>>)

\* (mutant) only the price events are counted
CountChanges_PriceOnly(st, evs) ==
    [st EXCEPT !.price_changes =
        @ + Cardinality({i \in 1..Len(evs) : evs[i].change_type = "price_change"})]

\* _check_book, lines 196-202: the counters after the events of one book
RECURSIVE CountChanges(_, _)
CountChanges(st, evs) ==
    IF evs = <<>> THEN st
    ELSE LET t == Head(evs).change_type
             st1 == IF t = "price_change" THEN [st EXCEPT !.price_changes = @ + 1]
                    ELSE IF t = "availability_change"
                         THEN [st EXCEPT !.availability_changes = @ + 1]
                    ELSE IF t = "content_change"
                         THEN [st EXCEPT !.content_changes = @ + 1]
                    ELSE st
         IN  CountChanges(st1, Tail(evs))

\* (mutant) a changed book is logged but not written back
WriteChanged_Skipped(coll, new_book) == coll

\* _check_book, lines 204-205
WriteChanged(coll, new_book) == upsert_book(coll, new_book)

\* (mutant) an unchanged book is not written back
WriteUnchanged_Skipped(coll, new_book) == coll

\* _check_book, lines 212-214: the timestamp is set anew and the record is
\* written back
WriteUnchanged(coll, new_book) ==
    upsert_book(coll, [new_book EXCEPT !.crawl_timestamp = Now])

\* what the database does during one _check_book
DbOutcomes == {"ok", "get_fails", "upsert_fails"}

\* ChangeDetector._check_book(client, u): one plain client.get (no retry, no
\* semaphore), parse, hash, lookup, then the new / changed / unchanged branch;
\* every exception is caught and logged (lines 216-219)
CheckBook(u, outcome, parsed, db) ==
    /\ checks < MaxChecks
    /\ outcome # "ok" => parsed                       \* only a body is parsed
    /\ ~(outcome = "ok" /\ parsed) => db = "ok"        \* the database is reached after parsing
    /\ (outcome # "ok" \/ ~parsed \/ db # "ok") => faults < MaxFaults
    /\ faults' = IF outcome # "ok" \/ ~parsed \/ db # "ok" THEN faults + 1 ELSE faults
    /\ checks' = checks + 1
    /\ LET extracted == outcome = "ok" /\ parsed
           parsedBook == parse_book_detail_page(site[u], u)
           new_book == [parsedBook EXCEPT !.content_hash = compute_content_hash(parsedBook)]
           stored == Matching(books, u) # {}
           old_book == get_book_by_url(books, u)
       IN  /\ lastCheck' = [url |-> u, extracted |-> extracted, wasStored |-> stored,
                            db |-> db, changesBefore |-> changes,
                            statsBefore |-> dstats,
                            old_book |-> IF stored THEN old_book ELSE NoDict,
                            new_book |-> IF extracted THEN new_book ELSE NoDict,
                            outcome |-> outcome,
                            requests |-> 1,         \* the client.get of line 148
                            upserts |-> IF extracted /\ db # "get_fails" THEN 1 ELSE 0]
           /\ lastUpsert' = IF extracted /\ db = "ok"
                            THEN [url |-> u, wasStored |-> stored,
                                  is_new |-> is_new(books, new_book)]
                            ELSE lastUpsert
           /\ IF ~extracted \/ db = "get_fails"
              THEN UNCHANGED <<books, changes, dstats>>
              ELSE IF ~stored
              THEN IF db = "upsert_fails"
                   THEN UNCHANGED <<books, changes, dstats>>
                   ELSE /\ books' = upsert_book(books, new_book)
                        /\ changes' = Append(changes, NewBookChange(NewId(books, u), new_book))
                        /\ dstats' = [dstats EXCEPT !.new_books = @ + 1]
              ELSE IF old_book.content_hash # new_book.content_hash
              THEN LET book_changes == compare_books(old_book, new_book)
                   IN  /\ changes' = changes \o book_changes
                       /\ dstats' = CountChanges(dstats, book_changes)
                       /\ books' = IF db = "upsert_fails" THEN books
                                   ELSE WriteChanged(books, new_book)
              ELSE /\ dstats' = [dstats EXCEPT !.unchanged = @ + 1]
                   /\ books' = IF db = "upsert_fails" THEN books
                               ELSE WriteUnchanged(books, new_book)
                   /\ UNCHANGED changes
    /\ UNCHANGED <<crawlerVars, site, siteChanges, changelog, jobs, cmp>>

\* the other value of field f
OtherValue(f, v) == CHOOSE w \in FieldValues[f] : w # v

\* the site edits one field of one detail page
SiteChange(u, f) ==
    /\ siteChanges < MaxSiteChanges
    /\ siteChanges' = siteChanges + 1
    /\ site' = [site EXCEPT ![u][f] = OtherValue(f, @)]
    /\ UNCHANGED <<books, faults, crawlerVars, lastUpsert, changes, dstats, checks,
                   lastCheck, changelog, jobs, cmp>>

\* ChangeDetector._log_changes at the end of detect_changes (lines 65 and
\* 295-306): every entry of self.changes is inserted into the changelog
\* collection; self.changes is left as it is, and CrawlerScheduler keeps the
\* one ChangeDetector it built for all its jobs
LogChanges ==
    /\ jobs < MaxJobs
    /\ jobs' = jobs + 1
    /\ changelog' = changelog \o changes
    /\ UNCHANGED <<books, faults, crawlerVars, lastUpsert, site, siteChanges, changes,
                   dstats, checks, lastCheck, cmp>>

\* the detail pages the detector is run on
DetectUrls == {u \in BookUrls : PageOf(u) = 1}

NextDetect ==
    \/ \E u \in DetectUrls, o \in Outcomes, parsed \in BOOLEAN, db \in DbOutcomes :
          CheckBook(u, o, parsed, db)
    \/ \E u \in DetectUrls, f \in Fields : SiteChange(u, f)

SpecDetect == Init /\ [][NextDetect]_vars

\* --------------------------------- a crawl run and the detector on one store
\* the crawler process and the scheduler's detector run side by side on the
\* same MongoDB collections
NextStore ==
    \/ \E r \in BOOLEAN : StartOnce(r)
    \/ \E u \in Urls : Acquire(u)
    \/ \E u \in Urls, o \in Outcomes, parsed \in BOOLEAN : AttemptEnd(u, o, parsed)
    \/ \E u \in BookUrls, dbOk \in BOOLEAN : Upsert(u, dbOk)
    \/ GatherDone
    \/ SaveCheckpoint
    \/ SaveFinal
    \/ \E u \in DetectUrls, o \in Outcomes, parsed \in BOOLEAN, db \in DbOutcomes :
          CheckBook(u, o, parsed, db)

\* the environment injects no fault while the two work side by side
InitStore == InitState /\ faults = MaxFaults /\ cmp = NoCompare

SpecStore == InitStore /\ [][NextStore]_vars

\* ------------------------------- the scheduler's jobs after the first crawl
\* a crawl run fills the store, then CrawlerScheduler runs its jobs while the
\* site is edited
NextSchedule ==
    \/ \E r \in BOOLEAN : StartOnce(r)
    \/ \E u \in Urls : Acquire(u)
    \/ \E u \in Urls, o \in Outcomes, parsed \in BOOLEAN : AttemptEnd(u, o, parsed)
    \/ \E u \in Urls : BackoffEnd(u)
    \/ \E u \in BookUrls, dbOk \in BOOLEAN : Upsert(u, dbOk)
    \/ GatherDone
    \/ SaveCheckpoint
    \/ SaveFinal
    \/ pc = "done" /\ \E u \in DetectUrls, o \in Outcomes, parsed \in BOOLEAN,
                          db \in DbOutcomes : CheckBook(u, o, parsed, db)
    \/ pc = "done" /\ \E u \in DetectUrls, f \in Fields : SiteChange(u, f)
    \/ pc = "done" /\ LogChanges

\* the environment injects at most one fault
InitSchedule == InitState /\ faults = MaxFaults - 1 /\ cmp = NoCompare

SpecSchedule == InitSchedule /\ [][NextSchedule]_vars

\* ------------------------------------------------ compare_books called alone
\* a Book as get_book_by_url returns it, and as _check_book builds it
Hashed(book) == [book EXCEPT !.content_hash = compute_content_hash(book)]
CompareUrl == <<1, 1>>
StoredBooks ==
    {[Hashed(NewBook(b, CompareUrl, 0)) EXCEPT !.id = NewId({}, CompareUrl)] :
        b \in Bodies(CompareUrl)}
ParsedBooks == {Hashed(NewBook(b, CompareUrl, 0)) : b \in Bodies(CompareUrl)}

InitCompare ==
    /\ InitBase
    /\ cmp \in {[NoCompare EXCEPT !.old = o, !.new = n] :
                   o \in StoredBooks, n \in ParsedBooks}

\* (mutant) the list of events is kept from one call to the next
FreshList_KeptAcrossCalls(previous) == previous

\* compare_books, line 232: "changes = []", a list local to each call,
\* whatever an earlier call returned
FreshList(previous) == <<>>

\* (mutant) compare_books collects what it found in self.changes itself
ChangesAfterCompare_Collected(collected, events) == collected \o events

\* self.changes after a compare_books call: the method appends to its local
\* list only (lines 246, 265, 278, 290); collecting is left to the caller
\* (line 193)
ChangesAfterCompare(collected, events) == collected

\* await detector.compare_books(cmp.old, cmp.new)
CompareBooks ==
    /\ ~cmp.done
    /\ cmp.old \in StoredBooks
    /\ cmp' = [cmp EXCEPT !.events = FreshList(<<>>) \o compare_books(cmp.old, cmp.new),
                          !.done = TRUE]
    /\ changes' = ChangesAfterCompare(changes, compare_books(cmp.old, cmp.new))
    /\ UNCHANGED <<books, faults, crawlerVars, lastUpsert, site, siteChanges, dstats,
                   checks, lastCheck, changelog, jobs>>

\* a second await detector.compare_books(cmp.old, cmp.new) on the same two
\* records (compare_books writes neither to them nor to storage)
CompareBooksAgain ==
    /\ cmp.done
    /\ ~cmp.doneAgain
    /\ cmp.old \in StoredBooks
    /\ cmp' = [cmp EXCEPT !.again = FreshList(cmp.events) \o compare_books(cmp.old, cmp.new),
                          !.doneAgain = TRUE]
    /\ UNCHANGED <<books, faults, crawlerVars, lastUpsert, site, detectorVars>>

NextCompare ==
    \/ CompareBooks
    \/ CompareBooksAgain

SpecCompare == InitCompare /\ [][NextCompare]_vars

\* ------------------------------------------- compute_content_hash called alone
\* the names two records can bear
HashNames == {<<1, 1>>, <<1, 2>>}

\* Books as the parser builds them, over every value of every field
HashInputs == {NewBook(b, CompareUrl, 0) : b \in UNION {Bodies(n) : n \in HashNames}}

InitHash ==
    /\ InitBase
    /\ cmp \in {[a |-> x, b |-> y, hash_a |-> NoHash, hash_b |-> NoHash, done |-> FALSE] :
                   x \in HashInputs, y \in HashInputs}

\* Database.compute_content_hash(cmp.a) and Database.compute_content_hash(cmp.b)
HashBooks ==
    /\ ~cmp.done
    /\ cmp.a \in HashInputs
    /\ cmp' = [cmp EXCEPT !.hash_a = compute_content_hash(cmp.a),
                          !.hash_b = compute_content_hash(cmp.b),
                          !.done = TRUE]
    /\ UNCHANGED <<books, faults, crawlerVars, lastUpsert, site, detectorVars>>

NextHash == HashBooks

SpecHash == InitHash /\ [][NextHash]_vars

\* ================================================================== claims
FetchReturned(u) == call[u].body # NoBody
FetchRaised(u) == call[u].err # NoErr
Last(s) == s[Len(s)]

\* C1: at every point the number of requests in flight through fetch_page,
\* catalog-page and detail-page fetches counted together, is at most
\* max_concurrent_requests.
C1_ConcurrencyCap == Cardinality(InFlight) <= max_concurrent_requests

\* the cap is reached while another detail-page fetch waits to be admitted
C1_Witness ==
    /\ Cardinality(InFlight) = max_concurrent_requests
    /\ \E u \in BookUrls : call[u].pc = "acquire"

\* C2 (as claimed): a run resumed from the checkpoint saved for catalog page N
\* fetches no detail page of catalog pages 1..N.
C2_NoRefetchOfCheckpointedPages ==
    (resumedPage # None /\ endedAt # "done")
        => \A u \in fetched : PageOf(u) > resumedPage

\* C3: the checkpoint naming page P is saved only after every detail-page task
\* of P has finished, no checkpoint is saved while a detail-page task is still
\* running, and the next catalog page is fetched (and its batch dispatched)
\* only after the save of the page before it has returned.
C3_CheckpointBarrier ==
    /\ lastSave.running = 0
    /\ lastSave.kind = "page" => lastSave.page \in Range(processedPages)
    /\ pc \in {"catalog", "gather"} => savedPages = processedPages

\* the second catalog page is being fetched after the first page's checkpoint
C3_Witness ==
    /\ pc = "catalog"
    /\ lastSave.kind = "page"
    /\ lastSave.page = 1
    /\ call[<<2, 0>>].pc = "request"

\* C4 (as claimed): after a crash during the walk and a restart with resumed,
\* the detail pages fetched both before the crash and after the restart all
\* belong to one catalog page.
C4_AtMostOnePageRedone ==
    (resumed /\ endedAt \notin {"none", "done"})
        => Cardinality({PageOf(u) : u \in fetched \cap prevFetched}) <= 1

\* C5: one fetch_page call makes at most 3 requests; it stops at the first
\* request that succeeds and returns that response (fail, fail, succeed is 3
\* requests and returns the third response); when all 3 fail with a transient
\* error it raises the error of the last attempt.
C5_RetryUpToThree ==
    \A u \in Urls :
        LET c == call[u] IN
        /\ c.attempt <= 3
        /\ Len(c.log) <= 3
        /\ \A k \in 1..Len(c.log) : c.log[k] = "ok" => k = Len(c.log)
        /\ FetchReturned(u) <=> (c.log # <<>> /\ Last(c.log) = "ok")
        /\ FetchReturned(u) => c.body = <<u, Len(c.log)>>
        /\ FetchRaised(u) => c.err = <<Last(c.log), Len(c.log)>>
        /\ c.log = <<"transient", "transient", "transient">>
              => c.err = <<"transient", 3>>
        /\ c.log = <<"transient", "transient", "ok">> => c.body = <<u, 3>>

\* a fetch that failed twice and succeeded at the third request
C5_Witness ==
    \E u \in Urls :
        /\ call[u].log = <<"transient", "transient", "ok">>
        /\ call[u].body = <<u, 3>>

\* C6 (as claimed): the backoff starts at 2 and doubles up to a ceiling of 10,
\* so the wait before the third attempt is strictly longer than the wait
\* before the second.
C6_BackoffDoubles ==
    \A u \in Urls :
        \A k \in 1..Len(call[u].waits) :
            /\ call[u].waits[k] = Min(wait_min * Pow2(k - 1), wait_max)
            /\ k > 1 => call[u].waits[k] > call[u].waits[k - 1]

\* C7 (as claimed): a 4xx status or an error outside the HTTP errors ends the
\* fetch at once: no backoff wait and no further request follows it.
C7_PermanentFailsImmediately ==
    \A u \in Urls :
        \A k \in 1..Len(call[u].log) :
            call[u].log[k] \in {"status4xx", "other"}
                => (k = Len(call[u].log) /\ Len(call[u].waits) < k)

\* C7 (amended): an error outside httpx.HTTPError ends the fetch at once, with
\* no backoff wait and no further request; a 4xx status is an httpx.HTTPError
\* and is retried like a transient error, a backoff wait following each of
\* the first two failed requests.
C7_OnlyNonHttpFailsImmediately ==
    \A u \in Urls :
        \A k \in 1..Len(call[u].log) :
            /\ call[u].log[k] = "other"
                  => (k = Len(call[u].log) /\ Len(call[u].waits) < k
                      /\ call[u].err = <<"other", k>>)
            /\ (call[u].log[k] = "status4xx" /\ k < stop_after_attempt)
                  => Len(call[u].waits) >= k
            /\ (call[u].log[k] = "status4xx" /\ k = stop_after_attempt)
                  => call[u].err = <<"status4xx", k>>

\* a detail page answering 404 three times: three requests, then the error
C7_Witness ==
    \E u \in BookUrls :
        /\ call[u].log = <<"status4xx", "status4xx", "status4xx">>
        /\ call[u].err = <<"status4xx", 3>>
        /\ Len(call[u].waits) = 2

\* C8: when _check_book extracts a record whose source URL is not in storage
\* (and the database calls return), it appends exactly one change event of
\* kind new for it, increments new_books by exactly 1 and nothing else, and
\* storage afterwards holds a record with that URL.
C8_NewBookLogged ==
    (lastCheck.extracted /\ ~lastCheck.wasStored /\ lastCheck.db = "ok")
        => /\ Len(changes) = Len(lastCheck.changesBefore) + 1
           /\ SubSeq(changes, 1, Len(lastCheck.changesBefore)) = lastCheck.changesBefore
           /\ Last(changes).change_type = "new_book"
           /\ Last(changes).book_name = site[lastCheck.url].name
           /\ dstats = [lastCheck.statsBefore EXCEPT !.new_books = @ + 1]
           /\ Cardinality(Matching(books, lastCheck.url)) = 1
           /\ Last(changes).book_id = get_book_by_url(books, lastCheck.url).id

\* a second book was found new by the same detector
C8_Witness ==
    /\ lastCheck.extracted /\ ~lastCheck.wasStored /\ lastCheck.db = "ok"
    /\ Len(changes) = 2
    /\ dstats.new_books = 2

\* the compared fields of compare_books, in their order, and their event kinds
ComparedFields == <<"price_incl_tax", "num_available", "num_reviews">>
ComparedKinds == <<"price_change", "availability_change", "content_change">>
Differing == {k \in 1..3 : cmp.old[ComparedFields[k]] # cmp.new[ComparedFields[k]]}
\* the compared field an event carries in its payload (0: none)
FieldOf(e) ==
    IF \E k \in 1..3 : ComparedFields[k] \in DOMAIN e.old_value
    THEN CHOOSE k \in 1..3 : ComparedFields[k] \in DOMAIN e.old_value
    ELSE 0
SpecificEvents == {i \in 1..Len(cmp.events) : FieldOf(cmp.events[i]) # 0}
GenericEvents ==
    {i \in 1..Len(cmp.events) :
        /\ cmp.events[i].change_type = "content_change"
        /\ cmp.events[i].old_value = NoDict
        /\ cmp.events[i].new_value = NoDict}

\* C9: compare_books returns, in this order, one price_change event iff
\* price_incl_tax differs, one availability_change event iff num_available
\* differs, one content_change event carrying num_reviews iff num_reviews
\* differs; when a compared field differs, the number of events is the number
\* of differing fields.
C9_FieldEventsInOrder ==
    cmp.done =>
        /\ \A k \in 1..3 :
              Cardinality({i \in SpecificEvents : FieldOf(cmp.events[i]) = k})
                  = IF k \in Differing THEN 1 ELSE 0
        /\ \A i \in SpecificEvents :
              cmp.events[i].change_type = ComparedKinds[FieldOf(cmp.events[i])]
        /\ \A i, j \in SpecificEvents :
              i < j => FieldOf(cmp.events[i]) < FieldOf(cmp.events[j])
        /\ Differing # {} => Len(cmp.events) = Cardinality(Differing)

\* all three compared fields differ: three events
C9_Witness ==
    /\ cmp.done
    /\ Differing = {1, 2, 3}
    /\ Len(cmp.events) = 3

\* C10: compare_books returns a generic content_change event (no old/new
\* payload) iff the fingerprints differ and none of the three compared fields
\* differs; it is then the only event; equal fingerprints and equal compared
\* fields give the empty list.
C10_GenericEventAlone ==
    cmp.done =>
        LET hashDiffers == cmp.old.content_hash # cmp.new.content_hash
        IN  /\ GenericEvents # {} <=> (hashDiffers /\ Differing = {})
            /\ GenericEvents # {} => Len(cmp.events) = 1
            /\ Cardinality(GenericEvents) <= 1
            /\ (~hashDiffers /\ Differing = {}) => cmp.events = <<>>

\* only the rating differs: one generic event
C10_Witness ==
    /\ cmp.done
    /\ cmp.old.rating # cmp.new.rating
    /\ Differing = {}
    /\ Len(cmp.events) = 1
    /\ GenericEvents = {1}

\* C11: every field-specific event returned by compare_books carries the old
\* record's value of its field in old_value and the new record's value in
\* new_value, and the two differ (the availability event carries the
\* availability text of each record as well); old price 50 and new price 45
\* with equal num_available and num_reviews give exactly one price_change
\* event with old_value.price_incl_tax = 50 and new_value.price_incl_tax = 45.
C11_FieldEventPayloads ==
    cmp.done =>
        /\ \A i \in SpecificEvents :
              LET e == cmp.events[i]
                  f == ComparedFields[FieldOf(e)]
              IN  /\ f \in DOMAIN e.new_value
                  /\ e.old_value[f] = cmp.old[f]
                  /\ e.new_value[f] = cmp.new[f]
                  /\ e.old_value[f] # e.new_value[f]
                  /\ f = "num_available" =>
                        /\ e.old_value.availability = cmp.old.availability
                        /\ e.new_value.availability = cmp.new.availability
        /\ (/\ cmp.old.price_incl_tax = 50 /\ cmp.new.price_incl_tax = 45
            /\ cmp.old.num_available = cmp.new.num_available
            /\ cmp.old.num_reviews = cmp.new.num_reviews)
              => /\ Len(cmp.events) = 1
                 /\ cmp.events[1].change_type = "price_change"
                 /\ cmp.events[1].old_value = [price_incl_tax |-> 50]
                 /\ cmp.events[1].new_value = [price_incl_tax |-> 45]

\* the scenario: the price went from 50 to 45, nothing else compared differs
C11_Witness ==
    /\ cmp.done
    /\ cmp.old.price_incl_tax = 50 /\ cmp.new.price_incl_tax = 45
    /\ cmp.old.num_available = cmp.new.num_available
    /\ cmp.old.num_reviews = cmp.new.num_reviews
    /\ Len(cmp.events) = 1
    /\ cmp.events[1].change_type = "price_change"

\* the fields compute_content_hash reads, and the fields of a Book it does not
\* read that take several values here
TrackedFields == {"name", "price_incl_tax", "price_excl_tax", "availability",
                  "num_available", "num_reviews", "rating"}
UntrackedFields == {"image_url", "description"}
AgreeOn(fs) == \A f \in fs : cmp.a[f] = cmp.b[f]

\* C12: two records have equal fingerprints iff they agree on name,
\* price_incl_tax, price_excl_tax, availability, num_available, num_reviews and
\* rating (SHA-256 taken as collision-free); records that differ only in
\* untracked fields get equal fingerprints.
C12_HashOfTrackedFields ==
    cmp.done =>
        /\ cmp.hash_a # NoHash /\ cmp.hash_b # NoHash
        /\ (cmp.hash_a = cmp.hash_b) <=> AgreeOn(TrackedFields)
        /\ \A f \in TrackedFields :
              cmp.a[f] # cmp.b[f] => cmp.hash_a # cmp.hash_b

\* two records that differ in the image URL and the description only
C12_Witness ==
    /\ cmp.done
    /\ AgreeOn(TrackedFields)
    /\ \A f \in UntrackedFields : cmp.a[f] # cmp.b[f]
    /\ cmp.hash_a = cmp.hash_b

TaskFails(u) ==
    /\ call[u].pc \notin {"idle", "done"}
    /\ call'[u].pc = "done"
    /\ call'[u].result = "none"

\* C14: a failure confined to one detail page (fetch failed after the retries,
\* extraction returned no record, or the persistence call raised) adds exactly
\* 1 to failed, persists no record for that URL, does not leave scrape_book as
\* an exception, and leaves the other tasks of the page and the walk as they
\* are: the batch completes and, the catalog pages being readable, every
\* detail page of every catalog page is handled.
C14_ItemFailureIsolated ==
    /\ [][\A u \in BookUrls :
            TaskFails(u) =>
                /\ stats' = [stats EXCEPT !.failed = @ + 1]
                /\ books' = books
                /\ Matching(books', u) = {}
                /\ checkpoints' = checkpoints
                /\ pc = "gather" /\ pc' = "gather"
                /\ \A v \in Urls \ {u} : call'[v] = call[v]]_vars
    /\ [](/\ Cardinality(books) = stats.successful
          /\ pc = "save" => Range(book_urls) \subseteq fetched
          /\ (pc = "done" /\ book_urls # <<>>)
                => /\ Len(processedPages) = NumPages
                   /\ fetched = BookUrls
                   /\ stats.successful + stats.failed = Cardinality(BookUrls))

\* the walk went through every page although two detail pages had failed
C14_Witness ==
    /\ pc = "done"
    /\ stats.failed = 2
    /\ stats.successful = Cardinality(BookUrls) - 2
    /\ Cardinality(books) = Cardinality(BookUrls) - 2
    /\ Len(processedPages) = NumPages

\* the stored checkpoint of the crawl
StoredCheckpoint == get_checkpoint(checkpoints, "main_crawl")

\* the walk ended at a catalog page whose fetch raised after the retries
CatalogFetchFailed ==
    /\ current_page_url # None
    /\ book_urls = <<>>
    /\ FetchRaised(<<current_page_url, 0>>)

\* the walk ended at a catalog page that was fetched and lists no item
ZeroItemPage ==
    /\ current_page_url # None
    /\ book_urls = <<>>
    /\ FetchReturned(<<current_page_url, 0>>)

\* C15 (as claimed): when the fetch of a catalog page fails after all retries,
\* the walk stops without raising and the final checkpoint names the last
\* catalog page that was fetched and processed, not the page whose fetch
\* failed.
C15_FinalNamesLastGoodPage ==
    CatalogFetchFailed =>
        /\ pc \in {"final", "done"}
        /\ (pc = "done" /\ processedPages # <<>>)
              => /\ StoredCheckpoint.last_page_url = Last(processedPages)
                 /\ StoredCheckpoint.last_page_url # current_page_url

\* the walk processed a catalog page that has no next-page link
FullyTraversed ==
    /\ processedPages # <<>>
    /\ get_next_page_url(Last(processedPages)) = None

\* C16 (as claimed): the final checkpoint of a finished run has status success
\* exactly when the catalog was fully traversed, and status partial when the
\* walk was cut short by a zero-item page or a failed catalog fetch.
C16_FinalStatusReflectsTraversal ==
    pc = "done" =>
        /\ (StoredCheckpoint.status = "success") <=> FullyTraversed
        /\ (CatalogFetchFailed \/ ZeroItemPage) => StoredCheckpoint.status = "partial"

\* C17: when a catalog page is fetched and yields zero item URLs, the walk
\* ends without raising, no further catalog page and no detail page is
\* fetched even if the page has a next-page link, and the final checkpoint
\* names that page, the last catalog page fetched successfully.
C17_ZeroItemPageEndsWalk ==
    ZeroItemPage =>
        /\ pc \in {"final", "done"}
        /\ \A u \in Urls : PageOf(u) > current_page_url => call[u].pc = "idle"
        /\ \A u \in fetched : PageOf(u) < current_page_url
        /\ Unfinished = {}
        /\ pc = "done"
              => /\ lastSave.kind = "final"
                 /\ lastSave.page = current_page_url
                 /\ StoredCheckpoint.last_page_url = current_page_url

\* a run ended on a first page that lists no item but links to a second page
C17_Witness ==
    /\ ZeroItemPage
    /\ pc = "done"
    /\ next_page_url # None
    /\ StoredCheckpoint.last_page_url = current_page_url

\* C18 (as claimed): when a run started without resume finishes, the total it
\* reports is the number of detail pages attempted in that run, succeeded or
\* failed.
C18_TotalCountsAttempted ==
    (pc = "done" /\ ~resumed)
        => /\ stats.total_books = Cardinality(fetched)
           /\ stats.total_books = stats.successful + stats.failed

\* C19 (as claimed): when the crawl is interrupted while detail-page tasks are
\* in flight, the tasks run to completion before the process exits and a
\* final checkpoint with status partial is persisted before exit.
C19_InterruptFinishesAndSaves ==
    (pc = "idle" /\ endedAt = "gather")
        => /\ endedRunning = 0
           /\ HasCheckpoint(checkpoints, "main_crawl")
           /\ ~cpIsPage
           /\ StoredCheckpoint.status = "partial"

\* the last _check_book found a stored record with the fingerprint of the new
\* extraction, and its database calls returned
CheckedUnchanged ==
    /\ lastCheck.extracted /\ lastCheck.wasStored /\ lastCheck.db = "ok"
    /\ lastCheck.old_book.content_hash = lastCheck.new_book.content_hash

\* C20: when a stored record exists for the URL and its fingerprint equals
\* that of the new extraction, _check_book appends no change event, adds
\* exactly 1 to unchanged and touches no other counter, and writes the new
\* extraction back to the same document with a later crawl timestamp.
C20_UnchangedIsRefreshed ==
    CheckedUnchanged =>
        LET stored == get_book_by_url(books, lastCheck.url) IN
        /\ changes = lastCheck.changesBefore
        /\ dstats = [lastCheck.statsBefore EXCEPT !.unchanged = @ + 1]
        /\ Cardinality(Matching(books, lastCheck.url)) = 1
        /\ stored.id = lastCheck.old_book.id
        /\ stored.crawl_timestamp > lastCheck.old_book.crawl_timestamp
        /\ stored.content_hash = lastCheck.old_book.content_hash
        /\ \A f \in {"image_url", "description"} : stored[f] = lastCheck.new_book[f]

\* a book stored by an earlier check is found again with the same fingerprint,
\* its image URL or description edited on the site in between
C20_Witness ==
    /\ CheckedUnchanged
    /\ dstats.unchanged = 1
    /\ \E f \in {"image_url", "description"} :
          lastCheck.new_book[f] # lastCheck.old_book[f]

\* the fields of a Book that the parser reads from the page
PageFields == TrackedFields \cup UntrackedFields

\* C21: for every detail page that _check_book fetches and extracts (its
\* database calls returning), it calls upsert_book exactly once, whether the
\* book was new, changed or unchanged and whether or not an event was
\* emitted: storage then holds the extracted record under that URL.
C21_ExtractedIsUpsertedOnce ==
    (lastCheck.extracted /\ lastCheck.db = "ok")
        => LET stored == get_book_by_url(books, lastCheck.url) IN
           /\ lastCheck.upserts = 1
           /\ lastUpsert.url = lastCheck.url
           /\ Cardinality(Matching(books, lastCheck.url)) = 1
           /\ stored.content_hash = lastCheck.new_book.content_hash
           /\ \A f \in PageFields : stored[f] = lastCheck.new_book[f]

\* a stored book was found changed, its events collected, and written back
C21_Witness ==
    /\ lastCheck.extracted /\ lastCheck.db = "ok" /\ lastCheck.wasStored
    /\ lastCheck.old_book.content_hash # lastCheck.new_book.content_hash
    /\ Len(changes) > Len(lastCheck.changesBefore)
    /\ get_book_by_url(books, lastCheck.url).content_hash = lastCheck.new_book.content_hash

\* the fields in which the record extracted by the last check differs from the
\* stored one
Drifted == {f \in PageFields : lastCheck.old_book[f] # lastCheck.new_book[f]}

\* C22 (as claimed): a record that differs from its stored version only in
\* its rating, only in its description or only in its image URL produces
\* exactly one generic content_change event and no field-specific event in
\* the check that observes it.
C22_DriftGivesGenericEvent ==
    (/\ lastCheck.extracted /\ lastCheck.wasStored /\ lastCheck.db = "ok"
     /\ Drifted \in {{"rating"}, {"description"}, {"image_url"}})
        => /\ Len(changes) = Len(lastCheck.changesBefore) + 1
           /\ Last(changes).change_type = "content_change"
           /\ Last(changes).old_value = NoDict
           /\ Last(changes).new_value = NoDict

\* C23: a compare_books call reads its two records and returns the event
\* list; it leaves the detector's collected changes, its stats counters, the
\* stored records, the change log, the checkpoints and its two arguments
\* unchanged.
C23_CompareIsPure ==
    [][cmp' # cmp =>
          /\ changes' = changes
          /\ dstats' = dstats
          /\ books' = books
          /\ changelog' = changelog
          /\ checkpoints' = checkpoints
          /\ cmp'.old = cmp.old
          /\ cmp'.new = cmp.new]_vars

\* a call returned three events and the detector has collected none
C23_Witness ==
    /\ cmp.done
    /\ Len(cmp.events) = 3
    /\ changes = <<>>
    /\ dstats = FreshDetectorStats

\* C24: whatever the interleaving of the crawler's and the detector's
\* upsert_book calls, the collection holds at most one document per source_url;
\* an upsert of a stored URL keeps the document's _id and reports
\* is_new = FALSE, an upsert of a new URL adds exactly one document and reports
\* is_new = TRUE, and no step removes a document
C24_OneRecordPerUrl ==
    /\ [][/\ \A d \in books : \E d2 \in books' :
                 d2.source_url = d.source_url /\ d2.id = d.id
           /\ lastUpsert' # lastUpsert =>
                 /\ Cardinality(Matching(books', lastUpsert'.url)) = 1
                 /\ lastUpsert'.is_new = (Matching(books, lastUpsert'.url) = {})
                 /\ Cardinality(books') =
                        Cardinality(books) + (IF lastUpsert'.is_new THEN 1 ELSE 0)
           /\ Cardinality(books') <= Cardinality(books) + 1]_vars
    /\ [](\A u \in BookUrls : Cardinality(Matching(books, u)) <= 1)

\* the detector has written a book the crawl run of the same store had written
C24_Witness ==
    /\ lastCheck.url \in BookUrls
    /\ lastCheck.extracted /\ lastCheck.wasStored
    /\ call[lastCheck.url].result = "ok"
    /\ lastUpsert.url = lastCheck.url
    /\ ~lastUpsert.is_new
    /\ Cardinality(books) >= 2

\* C25: the checkpoints collection holds at most one document per
\* checkpoint_id; get_checkpoint("main_crawl") returns exactly the fields of
\* the most recent save, nothing of an earlier one, and finds nothing while
\* nothing was saved; an id never saved under is never found
C25_LastSaveWins ==
    /\ Cardinality({d \in checkpoints : d.checkpoint_id = "main_crawl"}) <= 1
    /\ ~HasCheckpoint(checkpoints, "other_crawl")
    /\ IF lastSave.cp = NoDict
       THEN ~HasCheckpoint(checkpoints, "main_crawl")
       ELSE /\ HasCheckpoint(checkpoints, "main_crawl")
            /\ StoredCheckpoint = lastSave.cp

\* the final save, without a last_book_url, has overwritten a per-page save
\* that had one
C25_Witness ==
    /\ lastSave.kind = "final"
    /\ savedPages # <<>>
    /\ lastSave.cp.last_book_url = NoUrl
    /\ StoredCheckpoint.last_book_url = NoUrl

\* the position of catalog page p in the order the run fetched the pages
FetchIndex(p) == CHOOSE n \in 1..Len(catalogFetched) : catalogFetched[n] = p

\* C26: the n-th catalog page a run fetches is the next-page link of the
\* (n-1)-th; the detail-page tasks in progress all belong to the page the walk
\* is on, and a detail page of a later catalog page is fetched only after the
\* batch of every earlier page has completed and none of its tasks is left
C26_PagesInLinkOrder ==
    /\ \A n \in 2..Len(catalogFetched) :
          catalogFetched[n] = get_next_page_url(catalogFetched[n - 1])
    /\ \A u \in Unfinished : PageOf(u) = current_page_url
    /\ \A u \in fetched :
          /\ PageOf(u) \in Range(catalogFetched)
          /\ \A n \in 1..(FetchIndex(PageOf(u)) - 1) :
                /\ catalogFetched[n] \in Range(processedPages)
                /\ \A v \in BookUrls :
                      PageOf(v) = catalogFetched[n] => call[v].pc = "idle"

\* a detail page of the second catalog page is being fetched
C26_Witness ==
    /\ Len(catalogFetched) = 2
    /\ pc = "gather"
    /\ \E u \in fetched : PageOf(u) = catalogFetched[2] /\ call[u].pc = "request"
    /\ \E v \in fetched : PageOf(v) = catalogFetched[1]

\* the page a run has to fetch first and the value its counter has to start at
ResumesCheckpoint == started.resume /\ started.checkpoint # NoDict
ExpectedFirstPage ==
    IF ResumesCheckpoint THEN started.checkpoint.last_page_url
    ELSE IF started.given # None THEN started.given ELSE 1
ExpectedSeed ==
    IF ResumesCheckpoint THEN started.checkpoint.total_books_crawled ELSE 0

\* C27: a run started with resume=True and a stored main_crawl checkpoint
\* fetches the checkpoint's last_page_url first and its counter starts at the
\* checkpoint's total_books_crawled; any other run fetches the given start_url
\* first, or catalog page 1 when none is given, and its counter starts at 0
C27_StartPointAndSeed ==
    pc # "idle" =>
        /\ start_url = ExpectedFirstPage
        /\ IF catalogFetched = <<>>
           THEN call[<<ExpectedFirstPage, 0>>].pc = "acquire"
           ELSE catalogFetched[1] = ExpectedFirstPage
        /\ processedPages = <<>> => stats.total_books = ExpectedSeed

\* a run resumes a checkpoint of page 2 that counts books, although page 1 was
\* given as start_url, and has fetched its first catalog page
C27_Witness ==
    /\ pc = "gather"
    /\ ResumesCheckpoint
    /\ started.given = 1
    /\ started.checkpoint.last_page_url = 2
    /\ started.checkpoint.total_books_crawled > 0
    /\ catalogFetched = <<2>>
    /\ processedPages = <<>>

\* C28: a slot of the semaphore is held exactly while a request is in flight
\* and given back when the attempt ends, with a body or with an exception; so
\* a fetch waiting at the cap leaves the wait only by being admitted, and the
\* walk always finishes with no fetch left waiting and all slots free: no
\* fetch waits forever
C28_NoFetchWaitsForever ==
    /\ [](semaphore + Cardinality(InFlight) = max_concurrent_requests)
    /\ [][\A u \in Urls : (call[u].pc = "acquire" /\ call'[u].pc # "acquire")
                              => call'[u].pc = "request"]_vars
    /\ (pc # "idle") ~> (pc = "done" /\ \A u \in Urls : call[u].pc # "acquire")
    /\ [](pc = "done" => semaphore = max_concurrent_requests)

\* a retry waits at the cap: its own failed attempt gave the slot back and
\* another fetch has taken it
C28_Witness ==
    /\ semaphore = 0
    /\ \E u \in BookUrls :
          /\ call[u].pc = "acquire"
          /\ call[u].attempt = 2
          /\ call[u].log[1] # "ok"

\* the detail-page tasks in progress: fetch begun, persistence write not ended
TasksInProgress == {u \in fetched : call[u].pc \notin {"idle", "done"}}

\* C29 (as claimed): at most max_concurrent_requests detail-page tasks of a
\* catalog page are in progress at once, a task being in progress from the
\* start of its fetch to the end of its persistence write
C29_TaskChainUnderCap == Cardinality(TasksInProgress) <= max_concurrent_requests

\* C30 (as claimed): a detail-page fetch of change detection that fails with
\* a transient error is attempted stop_after_attempt times before the page is
\* given up
C30_DetectorFetchRetries ==
    (lastCheck.url # NoUrl /\ lastCheck.outcome = "transient")
        => lastCheck.requests = stop_after_attempt

\* the events of kind new collected for the stored document d
NewEventsFor(d) ==
    {i \in 1..Len(changes) :
        changes[i].change_type = "new_book" /\ changes[i].book_id = d.id}

\* C31 (as claimed): every document of the books collection, inserted by a
\* crawl run or by the detector, has exactly one event of kind new
C31_EveryRecordHasNewEvent ==
    \A d \in books : Cardinality(NewEventsFor(d)) = 1

\* C32 (as claimed): every detected event is inserted into the changelog
\* collection exactly once, so the collection never holds more entries than
\* events were detected, however many jobs the scheduler has run
C32_EventsLoggedOnce == Len(changelog) <= Len(changes)

\* the last two _check_book calls were made on the same detail page, showing
\* the same fields, and the first compared it with the record stored for it
CheckedSameSnapshotAgain ==
    /\ checks' = checks + 1
    /\ lastCheck.url = lastCheck'.url
    /\ lastCheck.extracted /\ lastCheck.wasStored /\ lastCheck.db # "get_fails"
    /\ lastCheck'.extracted /\ lastCheck'.db = "ok"
    /\ \A f \in PageFields : lastCheck.new_book[f] = lastCheck'.new_book[f]

\* C37 (as claimed): a record that a detection cycle has processed and that
\* the site shows unchanged in the next cycle is classified as unchanged
\* there, and no event is detected for it a second time
C37_ChangeDetectedOnce ==
    [][CheckedSameSnapshotAgain =>
          /\ changes' = changes
          /\ dstats'.unchanged = dstats.unchanged + 1]_vars

\* C33 (as claimed): the walk finishes on every finite catalog. The site is
\* static and the page to visit next depends on the current page alone, so a
\* run that requests a catalog page it has requested before goes round for
\* ever: finishing requires that no catalog page is requested twice in a run
C33_WalkFinishes ==
    \A m, n \in 1..Len(catalogFetched) :
        catalogFetched[m] = catalogFetched[n] => m = n

\* the detail pages stored so far: each was crawled successfully at least once
CrawledSuccessfully == {d.source_url : d \in books}

\* C34 (as claimed): over any sequence of runs the total_books_crawled of the
\* stored checkpoint never exceeds the number of distinct detail pages crawled
\* successfully
C34_NoItemCountedTwice ==
    HasCheckpoint(checkpoints, "main_crawl")
        => StoredCheckpoint.total_books_crawled <= Cardinality(CrawledSuccessfully)

\* the number of detail-page tasks dispatched for the catalog pages in pages
RECURSIVE Dispatched(_)
Dispatched(pages) ==
    IF pages = <<>> THEN 0
    ELSE Len(parse_book_list_page(Head(pages))) + Dispatched(Tail(pages))

\* the tasks of the current batch that have finished
FinishedInBatch ==
    IF pc = "gather" THEN {u \in Range(book_urls) : call[u].pc = "done"} ELSE {}

\* C35: whatever the interleaving of the tasks, a scrape_book call that
\* finishes adds exactly 1 to exactly one of successful and failed, and no
\* other step of the run changes them; so successful + failed counts the
\* finished tasks, and is the number of detail pages dispatched so far whenever
\* a batch has completed
C35_EveryTaskCountedOnce ==
    /\ [][LET finishing == {u \in BookUrls : call[u].pc # "done" /\ call'[u].pc = "done"}
              sum == stats.successful + stats.failed
              sum2 == stats'.successful + stats'.failed
          IN  pc # "idle" =>
                /\ sum2 = sum + Cardinality(finishing)
                /\ Cardinality(finishing) <= 1
                /\ stats'.successful >= stats.successful
                /\ stats'.failed >= stats.failed]_vars
    /\ [](stats.successful + stats.failed
            = Dispatched(processedPages) + Cardinality(FinishedInBatch))

\* both batches have completed, with tasks that succeeded and tasks that failed
C35_Witness ==
    /\ pc = "save"
    /\ Len(processedPages) = NumPages
    /\ stats.successful >= 1
    /\ stats.failed >= 1
    /\ stats.successful + stats.failed = Cardinality(BookUrls)

\* the fetches sleeping between two attempts
InBackoff == {u \in Urls : call[u].pc = "backoff"}

\* C36: a fetch sleeping in backoff holds no slot: the slots taken are those
\* of the requests in flight, none of which is a sleeping fetch, so the other
\* fetches can take all max_concurrent_requests slots while it sleeps
C36_BackoffHoldsNoSlot ==
    /\ InBackoff \cap InFlight = {}
    /\ max_concurrent_requests - semaphore = Cardinality(InFlight \ InBackoff)
    /\ (InBackoff # {} /\ InFlight = {}) => semaphore = max_concurrent_requests

\* while one fetch sleeps in backoff, other fetches hold every slot
C36_Witness ==
    /\ InBackoff # {}
    /\ semaphore = 0
    /\ Cardinality(InFlight) = max_concurrent_requests

\* C38: within one run the total_books_crawled of successive checkpoints never
\* decreases, and each checkpoint, per page or final, stores the resume seed
\* plus the number of detail pages persisted on the pages processed so far
\* (when a checkpoint is saved no batch is in progress, so stats.successful
\* counts exactly those)
C38_TotalIsSeedPlusPersisted ==
    [][(lastSave' # lastSave /\ lastSave'.kind # "none") =>
          /\ lastSave'.cp.total_books_crawled = ExpectedSeed + stats.successful
          /\ lastSave.kind # "none" =>
                lastSave'.cp.total_books_crawled >= lastSave.cp.total_books_crawled]_vars

\* the second per-page checkpoint of a resumed run stores more than the seed
\* the run started from, although one of its tasks failed
C38_Witness ==
    /\ lastSave.kind = "page"
    /\ Len(savedPages) = 2
    /\ ResumesCheckpoint
    /\ ExpectedSeed > 0
    /\ stats.failed >= 1
    /\ lastSave.cp.total_books_crawled > ExpectedSeed

\* C39: after any sequence of _check_book calls on one ChangeDetector the four
\* change counters add up to the number of collected events, which is what
\* detect_changes reports as total_changes (len(self.changes), line 80)
C39_CountersMatchEvents ==
    dstats.new_books + dstats.price_changes + dstats.availability_changes
        + dstats.content_changes = Len(changes)

\* a new book and then an event for a change of it have been collected
C39_Witness ==
    /\ dstats.new_books = 1
    /\ dstats.price_changes + dstats.availability_changes + dstats.content_changes >= 1
    /\ Len(changes) >= 2
    /\ checks = MaxChecks

====
